---------------------------- MODULE Spec2Model ----------------------------
(***************************************************************************)
(* A model of the two command-line tools of the repository:                *)
(*   - src/check_cidr_coverage.py : loads two prefix lists and reports,    *)
(*     for every ER prefix, whether some MS prefix covers it;              *)
(*   - src/elastic_flow.py        : builds an Elasticsearch query from a   *)
(*     subnet list and, unless told otherwise, posts it and exports the    *)
(*     aggregation buckets.                                                *)
(*                                                                         *)
(* Text is modelled as a sequence of tokens.  A token is a blank, a comma, *)
(* the arrow delimiter, a junk word, or a whole "address/length" word.     *)
(* Addresses are AddrBits wide instead of 32/128 bits; everything the      *)
(* scripts do with them (masking of host bits, comparison of the network   *)
(* and broadcast address) is computed on that width.                       *)
(***************************************************************************)
EXTENDS Integers, Sequences, FiniteSets, TLC

VARIABLES
    \* --- a single call of is_network_covered (check_cidr_coverage.py) ---
    call_target,         \* the candidate text handed to the call
    call_covering,       \* the list of covering texts handed to the call
    has_subnet_of,       \* hasattr(target, 'subnet_of'): Python >= 3.7
    covered_result,      \* what the call produced
    \* --- a single call of read_cidrs_from_file ---
    file_lines,          \* the file: its lines, or Missing
    cidrs,               \* the list the call returned
    load_pc,             \* "ready" | "returned"
    \* --- main() of check_cidr_coverage.py ---
    pc,                  \* position in main
    ms_file, er_file,    \* the two input files: lines, or Missing
    ms_routes, er_routes,
    covered_routes, uncovered_routes,
    idx,                 \* number of ER routes the loop has processed
    log,                 \* what write_log_file wrote
    error,               \* the uncaught exception that ended the run, or "none"
    \* --- main() of elastic_flow.py ---
    es_pc,               \* position in main
    args,                \* the parsed command line
    input_csv,           \* the subnets of the input CSV, or Missing
    password,            \* whether a password is held after the optional prompt
    subnets, payload,    \* what load_subnets and build_payload returned
    prompted,            \* getpass was called
    asked,               \* what the confirmation prompt was answered ("none": not asked)
    posted,              \* the body handed to requests.post (<<>>: never called)
    printed,             \* the payload printed by the dry-run branch (<<>>: nothing)
    response,            \* the decoded response body (<<>>: none yet)
    output_opened,       \* the output CSV was opened for writing
    output_rows,         \* the rows written to it
    cause,               \* the cause logged when the run ended
    exit_code            \* the process's exit status, -1 while running

coverVars == <<call_target, call_covering, covered_result>>
loadVars  == <<file_lines, cidrs, load_pc>>
mainVars  == <<pc, ms_file, er_file, ms_routes, er_routes, covered_routes,
               uncovered_routes, idx, log, error>>
esVars    == <<es_pc, args, input_csv, password, subnets, payload, prompted,
               asked, posted, printed, response, output_opened,
               output_rows, cause, exit_code>>
vars      == <<coverVars, loadVars, mainVars, esVars, has_subnet_of>>

---------------------------------------------------------------------------
(* Bounds of the model *)

\* width of an address in bits (IPv4: 32, IPv6: 128)
AddrBits == 2
\* longest covering list handed to a single call of is_network_covered
MaxCover == 2
\* most lines of a file handed to a single call of read_cidrs_from_file
MaxLines == 3
\* most lines of each input file of main
MaxFileLines == 2

---------------------------------------------------------------------------
(* Text *)

Tok(k, f, a, l) == [k |-> k, fam |-> f, addr |-> a, len |-> l]
SP    == Tok("sp", "-", 0, 0)        \* a blank
COMMA == Tok("comma", "-", 0, 0)     \* ','
ARROW == Tok("arrow", "-", 0, 0)     \* the arrow delimiter
JUNK  == Tok("junk", "-", 0, 0)      \* a word that is no address/length
Net(f, a, l) == Tok("net", f, a, l)  \* the word "a/l" in family f's notation

\* a file that does not exist (no file holds this line)
Missing == << <<Tok("missing", "-", 0, 0)>> >>
None == <<>>

MaxAddr == 2^AddrBits - 1

RECURSIVE lstrip(_)
lstrip(s) == IF s # <<>> /\ Head(s) = SP THEN lstrip(Tail(s)) ELSE s

RECURSIVE rstrip(_)
rstrip(s) ==
    IF s # <<>> /\ s[Len(s)] = SP THEN rstrip(SubSeq(s, 1, Len(s) - 1)) ELSE s

\* str.strip()
strip(s) == rstrip(lstrip(s))

\* str.split(ARROW)[-1]: the text after the last arrow (the whole text when
\* there is none)
last_part(s) ==
    IF \E i \in 1..Len(s) : s[i] = ARROW
    THEN LET i == CHOOSE j \in 1..Len(s) : s[j] = ARROW
                      /\ \A m \in (j + 1)..Len(s) : s[m] # ARROW
         IN SubSeq(s, i + 1, Len(s))
    ELSE s

---------------------------------------------------------------------------
(* ipaddress *)

\* ipaddress.ip_network(text, strict=False): the network of a well-formed
\* "address/length" word, host bits masked off; ValueError for anything else.
ip_network(text) ==
    IF /\ Len(text) = 1
       /\ text[1].k = "net"
       /\ text[1].addr \in 0..MaxAddr
       /\ text[1].len \in 0..AddrBits
    THEN LET hosts == 2^(AddrBits - text[1].len)
             base  == text[1].addr - (text[1].addr % hosts)
         IN [ok |-> TRUE, version |-> text[1].fam, prefixlen |-> text[1].len,
             network_address |-> base, broadcast_address |-> base + hosts - 1]
    ELSE [ok |-> FALSE, version |-> "-", prefixlen |-> 0,
          network_address |-> 0, broadcast_address |-> 0]

\* get_ip_range: "first - last", or the sentinel for a text that does not parse
get_ip_range(cidr) ==
    LET network == ip_network(cidr)
    IN IF network.ok
       THEN <<network.version, network.network_address, network.broadcast_address>>
       ELSE <<"Invalid CIDR", 0, 0>>


---------------------------------------------------------------------------
(* check_cidr_coverage.py: the containment test *)

Returned(c, by) == [outcome |-> "return", covered |-> c, by |-> by]
Raised(e)       == [outcome |-> e, covered |-> FALSE, by |-> None]
Pending         == [outcome |-> "pending", covered |-> FALSE, by |-> None]

\* A faulty variant of is_subnet_of: strict comparisons of the two bounds.
is_subnet_of_strict(subnet, supernet) ==
    LET subnet_net   == ip_network(subnet)
        supernet_net == ip_network(supernet)
    IN IF ~subnet_net.ok \/ ~supernet_net.ok THEN "False"
       ELSE IF subnet_net.version # supernet_net.version THEN "TypeError"
       ELSE IF /\ subnet_net.network_address > supernet_net.network_address
               /\ subnet_net.broadcast_address < supernet_net.broadcast_address
            THEN "True" ELSE "False"

\* is_subnet_of(subnet, supernet): both texts are parsed again; ValueError is
\* caught and gives False.  Comparing the addresses of two families raises
\* TypeError (ipaddress._BaseAddress.__lt__), which the except clause does not
\* catch.
is_subnet_of(subnet, supernet) ==
    LET subnet_net   == ip_network(subnet)
        supernet_net == ip_network(supernet)
    IN IF ~subnet_net.ok \/ ~supernet_net.ok THEN "False"
       ELSE IF subnet_net.version # supernet_net.version THEN "TypeError"
       ELSE IF /\ subnet_net.network_address >= supernet_net.network_address
               /\ subnet_net.broadcast_address <= supernet_net.broadcast_address
            THEN "True" ELSE "False"

\* target.subnet_of(covering) of the standard library (Python >= 3.7), as
\* line 82 calls it: TypeError when the versions differ, else the comparison
\* of the two bounds.
subnet_of(target, covering) ==
    IF target.version # covering.version THEN "TypeError"
    ELSE IF /\ covering.network_address <= target.network_address
            /\ covering.broadcast_address >= target.broadcast_address
         THEN "True" ELSE "False"

\* target == covering (ipaddress._BaseNetwork.__eq__)
net_eq(target, covering) ==
    /\ target.version = covering.version
    /\ target.network_address = covering.network_address
    /\ target.prefixlen = covering.prefixlen

\* One evaluation of lines 81-84: "True", "False" or "TypeError".
is_covered(py37, target_network, covering_network) ==
    LET target   == ip_network(target_network)
        covering == ip_network(covering_network)
        sub      == IF py37 THEN subnet_of(target, covering)
                    ELSE is_subnet_of(target_network, covering_network)
    IN IF sub = "False"
       THEN (IF net_eq(target, covering) THEN "True" ELSE "False")
       ELSE sub

\* The for loop of lines 76-89 from entry i on.
RECURSIVE scan_covering(_, _, _, _)
scan_covering(py37, target_network, covering_networks, i) ==
    IF i > Len(covering_networks) THEN Returned(FALSE, None)
    ELSE LET covering_network == covering_networks[i]
         IN IF ~ip_network(covering_network).ok
            THEN \* ValueError, caught: continue
                 scan_covering(py37, target_network, covering_networks, i + 1)
            ELSE LET c == is_covered(py37, target_network, covering_network)
                 IN CASE c = "True"  -> Returned(TRUE, covering_network)
                      [] c = "False" ->
                           scan_covering(py37, target_network, covering_networks, i + 1)
                      [] OTHER       -> Raised(c)

\* A faulty variant of is_network_covered: a match reports the candidate itself.
is_network_covered_reports_target(py37, target_network, covering_networks) ==
    IF ~ip_network(target_network).ok THEN Raised("ValueError")
    ELSE LET r == scan_covering(py37, target_network, covering_networks, 1)
         IN IF r.outcome = "return" /\ r.covered
            THEN Returned(TRUE, target_network)
            ELSE r

\* is_network_covered(target_network, covering_networks).  The target is
\* parsed outside the try block: a target that does not parse raises
\* ValueError out of the function.
is_network_covered(py37, target_network, covering_networks) ==
    IF ~ip_network(target_network).ok THEN Raised("ValueError")
    ELSE scan_covering(py37, target_network, covering_networks, 1)

---------------------------------------------------------------------------
(* check_cidr_coverage.py: the loader *)

\* Lines 26-37 for one line: the list of texts the line adds to cidrs (one
\* text or none).  A blank line and a line that starts with a comma are
\* skipped before any candidate is extracted; a candidate that does not parse
\* is reported and dropped.
load_line(raw) ==
    LET line == strip(raw)
    IN IF line # <<>> /\ Head(line) # COMMA
       THEN LET cidr_part == strip(last_part(line))
            IN IF cidr_part # <<>> /\ ip_network(cidr_part).ok
               THEN <<cidr_part>>
               ELSE <<>>
       ELSE <<>>

\* A faulty variant of load_lines: the first line that adds nothing ends the loading.
RECURSIVE load_lines_abort(_)
load_lines_abort(lines) ==
    IF lines = <<>> \/ load_line(Head(lines)) = <<>> THEN <<>>
    ELSE load_line(Head(lines)) \o load_lines_abort(Tail(lines))

RECURSIVE load_lines(_)
load_lines(lines) ==
    IF lines = <<>> THEN <<>>
    ELSE load_line(Head(lines)) \o load_lines(Tail(lines))

\* read_cidrs_from_file(filename): FileNotFoundError is caught and leaves the
\* list empty.
read_cidrs_from_file(file) ==
    IF file = Missing THEN <<>> ELSE load_lines(file)

---------------------------------------------------------------------------
(* check_cidr_coverage.py: the report *)

\* "{x:.1f}" of covered/total*100, in tenths of a percent (round half even,
\* as the formatting of a float does).  total > 0.
pct_tenths(covered, total) ==
    LET q == (1000 * covered) \div total
        r == (1000 * covered) % total
    IN IF 2 * r < total THEN q
       ELSE IF 2 * r > total THEN q + 1
       ELSE IF q % 2 = 0 THEN q ELSE q + 1

NoLog == [opened |-> FALSE, complete |-> FALSE, ms_count |-> 0, total |-> 0,
          covered |-> 0, uncovered |-> 0, pct |-> -1,
          covered_rows |-> <<>>, uncovered_rows |-> <<>>,
          ms_rows |-> <<>>, er_rows |-> <<>>]

\* write_log_file: what the log holds when the function is left, and the
\* exception it is left with.  Line 116 divides by len(er_routes) before any
\* table is written.
write_log_file(ms, er, cov, uncov) ==
    IF Len(er) = 0
    THEN [raised |-> "ZeroDivisionError",
          log |-> [NoLog EXCEPT !.opened = TRUE, !.ms_count = Len(ms),
                                !.covered = Len(cov), !.uncovered = Len(uncov)]]
    ELSE [raised |-> "none",
          log |-> [opened |-> TRUE, complete |-> TRUE, ms_count |-> Len(ms),
                   total |-> Len(er), covered |-> Len(cov),
                   uncovered |-> Len(uncov),
                   pct |-> pct_tenths(Len(cov), Len(er)),
                   covered_rows |->
                       [i \in 1..Len(cov) |->
                           <<cov[i][1], get_ip_range(cov[i][1]),
                             cov[i][2], get_ip_range(cov[i][2])>>],
                   uncovered_rows |->
                       [i \in 1..Len(uncov) |-> <<uncov[i], get_ip_range(uncov[i])>>],
                   ms_rows |-> [i \in 1..Len(ms) |-> <<ms[i], get_ip_range(ms[i])>>],
                   er_rows |-> [i \in 1..Len(er) |-> <<er[i], get_ip_range(er[i])>>]]]

---------------------------------------------------------------------------
(* Inputs *)

SeqUpTo(S, n) == UNION {[1..k -> S] : k \in 0..n}

\* texts handed to a single call of is_network_covered: networks of both
\* families, with and without host bits, a length out of range, a junk word
CoverTexts ==
    {<<Net("v4", a, l)>> : a \in {0, 1, MaxAddr}, l \in 0..AddrBits}
        \cup {<<Net("v6", 0, 0)>>, <<Net("v6", 1, AddrBits)>>}
        \cup {<<Net("v4", 0, AddrBits + 1)>>, <<JUNK>>}

\* lines of a file handed to a single call of read_cidrs_from_file
LoadLines ==
    { <<>>, <<SP>>,
      <<Net("v4", 0, 1)>>,
      <<SP, Net("v4", 1, AddrBits), SP>>,
      <<Net("v6", 0, 0)>>,
      <<JUNK>>,
      <<Net("v4", 0, AddrBits + 1)>>,
      <<COMMA, Net("v4", 0, 1)>>,
      <<JUNK, ARROW, SP, Net("v4", 0, 1)>>,
      <<JUNK, ARROW, JUNK, ARROW, Net("v4", 1, AddrBits)>>,
      <<Net("v4", 0, 1), ARROW, JUNK>>,
      <<Net("v4", 0, 1), ARROW>>,
      <<COMMA, JUNK, ARROW, Net("v4", 0, 1)>>,
      <<Net("v4", 0, 1), SP, Net("v4", 0, 1)>> }

\* lines of the two input files of main
MainLines ==
    { <<Net("v4", 0, 1)>>, <<Net("v4", 1, AddrBits)>>,
      <<Net("v4", MaxAddr, AddrBits)>>, <<Net("v6", 0, 0)>>, <<JUNK>> }

---------------------------------------------------------------------------
(* States in which a part of the model is not running *)

CoverIdle ==
    /\ call_target = None
    /\ call_covering = <<>>
    /\ covered_result = Pending

LoadIdle ==
    /\ file_lines = <<>>
    /\ cidrs = <<>>
    /\ load_pc = "idle"

MainIdle ==
    /\ pc = "idle"
    /\ ms_file = <<>> /\ er_file = <<>>
    /\ ms_routes = <<>> /\ er_routes = <<>>
    /\ covered_routes = <<>> /\ uncovered_routes = <<>>
    /\ idx = 0
    /\ log = NoLog
    /\ error = "none"

---------------------------------------------------------------------------
(* A single call of is_network_covered *)

CallIsNetworkCovered ==
    /\ covered_result = Pending
    /\ call_target # None
    /\ covered_result' =
           is_network_covered(has_subnet_of, call_target, call_covering)
    /\ UNCHANGED <<call_target, call_covering, has_subnet_of,
                   loadVars, mainVars, esVars>>

---------------------------------------------------------------------------
(* A single call of read_cidrs_from_file *)

CallReadCidrs ==
    /\ load_pc = "ready"
    /\ cidrs' = read_cidrs_from_file(file_lines)
    /\ load_pc' = "returned"
    /\ UNCHANGED <<file_lines, has_subnet_of, coverVars, mainVars, esVars>>

---------------------------------------------------------------------------
(* main() of check_cidr_coverage.py *)

\* lines 186-191: both files are read
ReadInputs ==
    /\ pc = "start"
    /\ ms_routes' = read_cidrs_from_file(ms_file)
    /\ er_routes' = read_cidrs_from_file(er_file)
    /\ pc' = "loop"
    /\ UNCHANGED <<ms_file, er_file, covered_routes, uncovered_routes, idx,
                   log, error, has_subnet_of, coverVars, loadVars, esVars>>

\* lines 198-203: one iteration of the coverage loop.  An exception raised by
\* is_network_covered is not caught in main and ends the run.
CoverageLoop ==
    /\ pc = "loop"
    /\ idx < Len(er_routes)
    /\ LET er_route == er_routes[idx + 1]
           r == is_network_covered(has_subnet_of, er_route, ms_routes)
       IN IF r.outcome = "return"
          THEN /\ IF r.covered
                  THEN /\ covered_routes' = Append(covered_routes, <<er_route, r.by>>)
                       /\ UNCHANGED uncovered_routes
                  ELSE /\ uncovered_routes' = Append(uncovered_routes, er_route)
                       /\ UNCHANGED covered_routes
               /\ idx' = idx + 1
               /\ UNCHANGED <<pc, error>>
          ELSE /\ pc' = "crashed"
               /\ error' = r.outcome
               /\ UNCHANGED <<covered_routes, uncovered_routes, idx>>
    /\ UNCHANGED <<ms_file, er_file, ms_routes, er_routes, log,
                   has_subnet_of, coverVars, loadVars, esVars>>

\* lines 205-206: the loop is over and the log is written
WriteLog ==
    /\ pc = "loop"
    /\ idx = Len(er_routes)
    /\ LET w == write_log_file(ms_routes, er_routes, covered_routes, uncovered_routes)
       IN /\ log' = w.log
          /\ error' = w.raised
          /\ pc' = IF w.raised = "none" THEN "logged" ELSE "crashed"
    /\ UNCHANGED <<ms_file, er_file, ms_routes, er_routes, covered_routes,
                   uncovered_routes, idx, has_subnet_of, coverVars, loadVars,
                   esVars>>

\* lines 208-233: the console summary; main returns
PrintSummary ==
    /\ pc = "logged"
    /\ pc' = "done"
    /\ UNCHANGED <<ms_file, er_file, ms_routes, er_routes, covered_routes,
                   uncovered_routes, idx, log, error, has_subnet_of, coverVars,
                   loadVars, esVars>>

---------------------------------------------------------------------------
(* elastic_flow.py *)

SRC_FIELD == "source.ip"
DST_FIELD == "destination.ip"

\* a cell of the input CSV, stripped (str.strip)
strip_cell(c) ==
    CASE c = " 10.0.1.0/24 " -> "10.0.1.0/24"
      [] OTHER -> c

\* load_subnets: the stripped first cell of every row that is not empty
RECURSIVE load_subnets(_)
load_subnets(rows) ==
    IF rows = <<>> THEN <<>>
    ELSE IF Head(rows) # <<>>
         THEN <<strip_cell(Head(rows)[1])>> \o load_subnets(Tail(rows))
         ELSE load_subnets(Tail(rows))

\* ' OR '.join(f'"{subnet}"' for subnet in subnets)
RECURSIVE join_or(_)
join_or(ss) ==
    IF ss = <<>> THEN <<>>
    ELSE IF Len(ss) = 1 THEN <<"\"", ss[1], "\"">>
    ELSE <<"\"", ss[1], "\"", " OR ">> \o join_or(Tail(ss))

\* build_payload(subnets, days, agg_size)
build_payload(ss, days, agg_size) ==
    [size |-> 0,
     range |-> [field |-> "@timestamp", gte |-> <<"now-", days, "d/d">>,
                lte |-> "now/d"],
     query_string |-> [default_field |-> SRC_FIELD, query |-> join_or(ss)],
     aggs |-> [field |-> DST_FIELD, size |-> agg_size]]

\* json.dumps(document, indent=...): the document, and how it is laid out
json_dumps(document, indent) == [document |-> document, indent |-> indent]

\* what the user types at the confirmation prompt; "EOF": input is at its end
Answers == {"y", "yes", "Y", " Yes ", "n", "no", "", "yes please", "EOF"}

\* str.strip().lower()
strip_lower(a) ==
    CASE a = "Y" -> "y"
      [] a = " Yes " -> "yes"
      [] OTHER -> a

\* A faulty variant of confirm: an empty answer takes the default to be yes.
confirm_default_yes(answer) ==
    IF answer = "EOF" THEN FALSE ELSE strip_lower(answer) \in {"y", "yes", ""}

\* confirm(prompt)
confirm(answer) ==
    IF answer = "EOF" THEN FALSE ELSE strip_lower(answer) \in {"y", "yes"}

\* rows of the input CSV
CsvRows == { <<"10.0.0.0/24">>, <<" 10.0.1.0/24 ", "lab">>, <<>> }

\* most rows of the input CSV
MaxRows == 2

DaysChoices == {7, 14}
SizeChoices == {100, 10000}

\* the aggregation buckets of a response
BucketLists ==
    { <<>>, <<[key |-> "192.0.2.1", doc_count |-> 5]>>,
      <<[key |-> "192.0.2.1", doc_count |-> 5],
        [key |-> "192.0.2.9", doc_count |-> 1]>> }

ArgSets ==
    [wildcard : BOOLEAN, allow_wildcard : BOOLEAN, username : BOOLEAN,
     password : BOOLEAN, dry_run : BOOLEAN, confirm : BOOLEAN,
     insecure : BOOLEAN, days : DaysChoices, size : SizeChoices]

\* the input path: absent, present but not readable as a file, or a CSV
InputSets ==
    {[kind |-> "missing", rows |-> <<>>], [kind |-> "unreadable", rows |-> <<>>]}
        \cup {[kind |-> "file", rows |-> r] : r \in SeqUpTo(CsvRows, MaxRows)}

EsIdle ==
    /\ es_pc = "idle"
    /\ args = [wildcard |-> FALSE, allow_wildcard |-> FALSE, username |-> FALSE,
               password |-> FALSE, dry_run |-> FALSE, confirm |-> FALSE,
               insecure |-> FALSE, days |-> 14, size |-> 10000]
    /\ input_csv = [kind |-> "missing", rows |-> <<>>]
    /\ password = FALSE
    /\ subnets = <<>> /\ payload = <<>>
    /\ prompted = FALSE
    /\ asked = "none"
    /\ posted = <<>> /\ printed = <<>> /\ response = <<>>
    /\ output_opened = FALSE
    /\ output_rows = <<>>
    /\ cause = "none"
    /\ exit_code = -1

\* sys.exit(code), or main returning (code 0), or an uncaught exception (code 1)
Exit(code, why) ==
    /\ es_pc' = "exited"
    /\ exit_code' = code
    /\ cause' = why

\* lines 76-79
SanityCheck ==
    /\ es_pc = "start"
    /\ IF args.wildcard /\ ~args.allow_wildcard
       THEN Exit(2, "wildcard")
       ELSE es_pc' = "credentials" /\ UNCHANGED <<exit_code, cause>>
    /\ UNCHANGED <<args, input_csv, password, subnets, payload, prompted, asked,
                   posted, printed, response, output_opened, output_rows,
                   has_subnet_of, coverVars, loadVars, mainVars>>

\* A faulty variant of Credentials: only the username is required.
Credentials_username_only ==
    /\ es_pc = "credentials"
    /\ \E typed \in BOOLEAN :
          LET ask == args.username /\ ~args.password
              pw  == IF ask THEN typed ELSE args.password
          IN /\ prompted' = ask
             /\ password' = pw
             /\ IF ~args.username
                THEN Exit(2, "credentials")
                ELSE es_pc' = "input" /\ UNCHANGED <<exit_code, cause>>
    /\ UNCHANGED <<args, input_csv, subnets, payload, asked, posted, printed,
                   response, output_opened, output_rows, has_subnet_of,
                   coverVars, loadVars, mainVars>>

\* lines 81-87: the password is asked for when only the username is given
\* (what is typed may be empty); then both must be held
Credentials ==
    /\ es_pc = "credentials"
    /\ \E typed \in BOOLEAN :
          LET ask == args.username /\ ~args.password
              pw  == IF ask THEN typed ELSE args.password
          IN /\ prompted' = ask
             /\ password' = pw
             /\ IF ~args.username \/ ~pw
                THEN Exit(2, "credentials")
                ELSE es_pc' = "input" /\ UNCHANGED <<exit_code, cause>>
    /\ UNCHANGED <<args, input_csv, subnets, payload, asked, posted, printed,
                   response, output_opened, output_rows, has_subnet_of,
                   coverVars, loadVars, mainVars>>

\* lines 89-96: the input must exist; it is loaded and the payload is built.
\* A path that exists and cannot be read as a file makes open() raise, which
\* nothing catches.
LoadAndBuild ==
    /\ es_pc = "input"
    /\ CASE input_csv.kind = "missing" ->
              /\ Exit(2, "input")
              /\ UNCHANGED <<subnets, payload>>
         [] input_csv.kind = "unreadable" ->
              /\ Exit(1, "uncaught OSError")
              /\ UNCHANGED <<subnets, payload>>
         [] OTHER ->
              /\ subnets' = load_subnets(input_csv.rows)
              /\ payload' = <<build_payload(subnets', args.days, args.size)>>
              /\ es_pc' = "built"
              /\ UNCHANGED <<exit_code, cause>>
    /\ UNCHANGED <<args, input_csv, password, prompted, asked, posted, printed,
                   response, output_opened, output_rows, has_subnet_of,
                   coverVars, loadVars, mainVars>>

\* A faulty variant of DryRun: the payload is printed and the run goes on.
DryRun_goes_on ==
    /\ es_pc = "built"
    /\ args.dry_run
    /\ printed' = <<json_dumps(payload[1], 2)>>
    /\ es_pc' = "post"
    /\ UNCHANGED <<args, input_csv, password, subnets, payload, prompted, asked,
                   posted, response, output_opened, output_rows, exit_code,
                   cause, has_subnet_of, coverVars, loadVars, mainVars>>

\* lines 98-104: the dry run prints the payload and returns
DryRun ==
    /\ es_pc = "built"
    /\ args.dry_run
    /\ printed' = <<json_dumps(payload[1], 2)>>
    /\ Exit(0, "dry-run")
    /\ UNCHANGED <<args, input_csv, password, subnets, payload, prompted, asked,
                   posted, response, output_opened, output_rows, has_subnet_of,
                   coverVars, loadVars, mainVars>>

\* lines 106-110: a wildcard index is confirmed at the prompt unless --confirm
Confirm ==
    /\ es_pc = "built"
    /\ ~args.dry_run
    /\ IF args.wildcard /\ ~args.confirm
       THEN \E answer \in Answers :
               /\ asked' = answer
               /\ IF confirm(answer)
                  THEN es_pc' = "post" /\ UNCHANGED <<exit_code, cause>>
                  ELSE Exit(0, "aborted")
       ELSE es_pc' = "post" /\ UNCHANGED <<asked, exit_code, cause>>
    /\ UNCHANGED <<args, input_csv, password, subnets, payload, prompted,
                   posted, printed, response, output_opened, output_rows,
                   has_subnet_of, coverVars, loadVars, mainVars>>

\* lines 112-128: the one request; a transport failure and a non-success
\* status (raise_for_status) are both RequestException
Post ==
    /\ es_pc = "post"
    /\ posted' = Append(posted, [auth |-> <<args.username, password>>,
                                 data |-> json_dumps(payload[1], 0),
                                 verify |-> ~args.insecure])
    /\ \E outcome \in {"ok", "http_error", "connection_error"} :
          IF outcome = "ok"
          THEN es_pc' = "decode" /\ UNCHANGED <<exit_code, cause>>
          ELSE Exit(1, "request")
    /\ UNCHANGED <<args, input_csv, password, subnets, payload, prompted, asked,
                   printed, response, output_opened, output_rows, has_subnet_of,
                   coverVars, loadVars, mainVars>>

\* lines 130-136: the body is decoded and the buckets are taken from it.  A
\* body that decodes to something other than an object makes data.get raise
\* AttributeError, which nothing catches.
Decode ==
    /\ es_pc = "decode"
    /\ \/ Exit(1, "json") /\ UNCHANGED response
       \/ Exit(1, "uncaught AttributeError") /\ UNCHANGED response
       \/ \E buckets \in BucketLists :
             /\ response' = <<buckets>>
             /\ es_pc' = "write"
             /\ UNCHANGED <<exit_code, cause>>
    /\ UNCHANGED <<args, input_csv, password, subnets, payload, prompted, asked,
                   posted, printed, output_opened, output_rows, has_subnet_of,
                   coverVars, loadVars, mainVars>>

\* lines 138-148: the output CSV; OSError on open or on a write ends the run
WriteCsv ==
    /\ es_pc = "write"
    /\ LET buckets == response[1]
           rows == <<<<"Destination IP", "Flow Count">>>> \o
                   [i \in 1..Len(buckets) |->
                       <<buckets[i].key, buckets[i].doc_count>>]
       IN \/ /\ UNCHANGED <<output_opened, output_rows>>
             /\ Exit(1, "write")
          \/ \E n \in 0..(Len(rows) - 1) :
                /\ output_opened' = TRUE
                /\ output_rows' = SubSeq(rows, 1, n)
                /\ Exit(1, "write")
          \/ /\ output_opened' = TRUE
             /\ output_rows' = rows
             /\ Exit(0, "success")
    /\ UNCHANGED <<args, input_csv, password, subnets, payload, prompted, asked,
                   posted, printed, response, has_subnet_of, coverVars,
                   loadVars, mainVars>>

---------------------------------------------------------------------------
(* Specifications *)

\* a single call of is_network_covered, on every input within the bounds
InitCover ==
    /\ call_target \in CoverTexts
    /\ call_covering \in SeqUpTo(CoverTexts, MaxCover)
    /\ has_subnet_of \in BOOLEAN
    /\ covered_result = Pending
    /\ LoadIdle /\ MainIdle /\ EsIdle

NextCover == CallIsNetworkCovered

SpecCover == InitCover /\ [][NextCover]_vars

\* a single call of read_cidrs_from_file, on every file within the bounds
InitLoad ==
    /\ file_lines \in {Missing} \cup SeqUpTo(LoadLines, MaxLines)
    /\ cidrs = <<>>
    /\ load_pc = "ready"
    /\ has_subnet_of = TRUE
    /\ CoverIdle /\ MainIdle /\ EsIdle

NextLoad == CallReadCidrs

SpecLoad == InitLoad /\ [][NextLoad]_vars

\* a run of check_cidr_coverage.py
InitMain ==
    /\ pc = "start"
    /\ ms_file \in {Missing} \cup SeqUpTo(MainLines, MaxFileLines)
    /\ er_file \in {Missing} \cup SeqUpTo(MainLines, MaxFileLines)
    /\ ms_routes = <<>> /\ er_routes = <<>>
    /\ covered_routes = <<>> /\ uncovered_routes = <<>>
    /\ idx = 0
    /\ log = NoLog
    /\ error = "none"
    /\ has_subnet_of \in BOOLEAN
    /\ CoverIdle /\ LoadIdle /\ EsIdle

NextMain == ReadInputs \/ CoverageLoop \/ WriteLog \/ PrintSummary

SpecMain == InitMain /\ [][NextMain]_vars

\* a run of elastic_flow.py
InitEs ==
    /\ es_pc = "start"
    /\ args \in ArgSets
    /\ input_csv \in InputSets
    /\ password = FALSE
    /\ subnets = <<>> /\ payload = <<>>
    /\ prompted = FALSE
    /\ asked = "none"
    /\ posted = <<>> /\ printed = <<>> /\ response = <<>>
    /\ output_opened = FALSE
    /\ output_rows = <<>>
    /\ cause = "none"
    /\ exit_code = -1
    /\ has_subnet_of = TRUE
    /\ CoverIdle /\ LoadIdle /\ MainIdle

NextEs ==
    SanityCheck \/ Credentials \/ LoadAndBuild \/ DryRun \/ Confirm \/ Post
        \/ Decode \/ WriteCsv

SpecEs == InitEs /\ [][NextEs]_vars

\* every program of the repository
Init == InitCover \/ InitLoad \/ InitMain \/ InitEs

Next == NextCover \/ NextLoad \/ NextMain \/ NextEs

Spec == Init /\ [][Next]_vars

---------------------------------------------------------------------------
(* Vocabulary of the properties *)

\* a text that is a well-formed "address/length" word
Valid(text) ==
    /\ Len(text) = 1
    /\ text[1].k = "net"
    /\ text[1].addr \in 0..MaxAddr
    /\ text[1].len \in 0..AddrBits

\* the addresses of a valid text's range: those that agree with its address
\* on the leading len bits
Range(text) ==
    LET hosts == 2^(AddrBits - text[1].len)
    IN {a \in 0..MaxAddr : a \div hosts = text[1].addr \div hosts}

\* P covers T: same family, and every address of T's range lies in P's
Covers(T, P) ==
    /\ Valid(T) /\ Valid(P)
    /\ T[1].fam = P[1].fam
    /\ Range(T) \subseteq Range(P)

\* the j-th smallest element of a set of numbers
Nth(K, j) == CHOOSE i \in K : Cardinality({k \in K : k < i}) = j - 1

\* the entries of seq at the positions K, in order
Sub(seq, K) == [j \in 1..Cardinality(K) |-> seq[Nth(K, j)]]

\* the candidate text of a line: the stripped text after its last arrow
Candidate(line) == strip(last_part(line))

\* an answer at the confirmation prompt that reads y or yes
SaysYes(a) == a \in {"y", "yes", "Y", " Yes "}

---------------------------------------------------------------------------
(* C1 *)

SameFamilyCall ==
    /\ covered_result # Pending
    /\ Valid(call_target)
    /\ \A i \in 1..Len(call_covering) :
          /\ Valid(call_covering[i])
          /\ call_covering[i][1].fam = call_target[1].fam

\* C1: for a valid candidate T and a list L of valid prefixes of T's family,
\* is_network_covered returns (True, P) with P the first entry of L, in input
\* order, whose range contains T's range, and (False, None) exactly when no
\* entry of L does.
C1_FirstCoveringEntry ==
    SameFamilyCall =>
        LET M == {i \in 1..Len(call_covering) :
                     Covers(call_target, call_covering[i])}
        IN IF M = {}
           THEN covered_result = Returned(FALSE, None)
           ELSE covered_result = Returned(TRUE, call_covering[Nth(M, 1)])

\* two different entries cover the candidate, and the first one is reported
C1_Witness ==
    /\ SameFamilyCall
    /\ Len(call_covering) = 2
    /\ call_covering[1] # call_covering[2]
    /\ Covers(call_target, call_covering[1])
    /\ Covers(call_target, call_covering[2])
    /\ call_target # call_covering[1]
    /\ covered_result = Returned(TRUE, call_covering[1])

---------------------------------------------------------------------------
(* C2 *)

\* C2: an entry of the covering list whose family differs from the valid
\* candidate's is skipped: the call returns, and returns what it returns for
\* the list without the entries of the other family.
C2_OtherFamilySkipped ==
    ( /\ covered_result # Pending
      /\ Valid(call_target)
      /\ \E i \in 1..Len(call_covering) :
            /\ Valid(call_covering[i])
            /\ call_covering[i][1].fam # call_target[1].fam )
    =>
      LET same(t) == ~(Valid(t) /\ t[1].fam # call_target[1].fam)
          M == {i \in 1..Len(call_covering) :
                   same(call_covering[i]) /\ Covers(call_target, call_covering[i])}
      IN /\ covered_result.outcome = "return"
         /\ IF M = {}
            THEN covered_result = Returned(FALSE, None)
            ELSE covered_result = Returned(TRUE, call_covering[Nth(M, 1)])

---------------------------------------------------------------------------
(* C9 *)

\* C9: a candidate that does not parse is treated as not covered: the call
\* returns (False, None) for every covering list, and does not raise.
C9_MalformedCandidateNotCovered ==
    (covered_result # Pending /\ ~Valid(call_target))
        => covered_result = Returned(FALSE, None)

---------------------------------------------------------------------------
(* C5 *)

\* the candidate texts of the lines at the positions K, in order
Loaded(K) ==
    Sub([i \in 1..Len(file_lines) |-> Candidate(file_lines[i])], K)

KeptAsClaimed(line) == Valid(Candidate(line))

KeptAsCoded(line) ==
    /\ strip(line) # <<>>
    /\ Head(strip(line)) # COMMA
    /\ Valid(Candidate(line))

\* C5 as stated: the loader returns the candidate texts of exactly the lines
\* whose candidate text parses, in order and with multiplicity.
C5_Original ==
    (load_pc = "returned" /\ file_lines # Missing)
        => cidrs = Loaded({i \in 1..Len(file_lines) : KeptAsClaimed(file_lines[i])})

\* C5 as amended: the loader returns the candidate texts of exactly the lines
\* that, stripped, are not empty, do not start with a comma, and whose
\* candidate text parses, in order and with multiplicity; every other line is
\* dropped and the lines after it are still loaded.
C5_LoaderKeepsValidLines ==
    (load_pc = "returned" /\ file_lines # Missing)
        => cidrs = Loaded({i \in 1..Len(file_lines) : KeptAsCoded(file_lines[i])})

\* a valid line, a line that does not parse, and a valid annotated line
\* after it: both valid ones are returned, in that order
C5_Witness ==
    /\ load_pc = "returned"
    /\ file_lines # Missing
    /\ Len(file_lines) = 3
    /\ Valid(file_lines[1])
    /\ file_lines[2] = <<JUNK>>
    /\ ARROW \in {file_lines[3][i] : i \in 1..Len(file_lines[3])}
    /\ file_lines[1] # Candidate(file_lines[3])
    /\ cidrs = <<file_lines[1], Candidate(file_lines[3])>>

---------------------------------------------------------------------------
(* C3 *)

\* C3: whenever the report is written it is written to the end, and its
\* coverage percentage is covered/total*100 to one decimal place, 0 when the
\* total is 0; no division error ends the run.
C3_PercentageDefined ==
    log.opened =>
        /\ error # "ZeroDivisionError"
        /\ log.complete
        /\ IF Len(er_routes) = 0
           THEN log.pct = 0
           ELSE LET d == log.pct * Len(er_routes) - 1000 * Len(covered_routes)
                IN 2 * d <= Len(er_routes) /\ -2 * d <= Len(er_routes)

---------------------------------------------------------------------------
(* C4 *)

\* C4: a missing input file gives zero prefixes and does not end the run:
\* the loop runs, the log is written and the summary printed; with the MS
\* file missing every ER prefix is uncovered.
C4_MissingFileRunCompletes ==
    /\ (pc # "start" /\ ms_file = Missing) => ms_routes = <<>>
    /\ (pc # "start" /\ er_file = Missing) => er_routes = <<>>
    /\ (ms_file = Missing \/ er_file = Missing) => pc # "crashed"
    /\ (ms_file = Missing /\ pc \in {"logged", "done"}) =>
           /\ covered_routes = <<>>
           /\ uncovered_routes = er_routes

---------------------------------------------------------------------------
(* C10 *)

\* C10: at every iteration the two result lists partition the ER entries
\* processed so far, each in ER order; their lengths add up to the number
\* processed (all of them once the loop is over); and every covering prefix
\* recorded is an entry of the loaded MS list.
C10_Partition ==
    /\ idx <= Len(er_routes)
    /\ Len(covered_routes) + Len(uncovered_routes) = idx
    /\ pc \in {"logged", "done"} => idx = Len(er_routes)
    /\ \E C \in SUBSET (1..idx) :
          /\ [j \in 1..Len(covered_routes) |-> covered_routes[j][1]]
                 = Sub(er_routes, C)
          /\ uncovered_routes = Sub(er_routes, (1..idx) \ C)
    /\ \A j \in 1..Len(covered_routes) :
          \E k \in 1..Len(ms_routes) : ms_routes[k] = covered_routes[j][2]

\* a finished run with a covered and an uncovered ER entry
C10_Witness ==
    /\ pc = "done"
    /\ Len(er_routes) = 2
    /\ Len(covered_routes) = 1
    /\ Len(uncovered_routes) = 1
    /\ covered_routes[1][1] # covered_routes[1][2]

---------------------------------------------------------------------------
(* C6 *)

\* C6: with a wildcard index, no request is issued unless --allow-wildcard
\* was given and the run was confirmed by --confirm or by y/yes at the prompt;
\* without the override the run exits 2 before any other step; a declined
\* prompt (or EOF) exits 0; in both cases requests.post is never called.
C6_WildcardGuard ==
    args.wildcard =>
        /\ posted # <<>> =>
              /\ args.allow_wildcard
              /\ args.confirm \/ SaysYes(asked)
        /\ ~args.allow_wildcard =>
              /\ es_pc \in {"start", "exited"}
              /\ es_pc = "exited" => exit_code = 2
              /\ ~prompted /\ subnets = <<>> /\ payload = <<>>
              /\ asked = "none" /\ posted = <<>> /\ printed = <<>>
              /\ ~output_opened
        /\ (asked # "none" /\ ~SaysYes(asked)) =>
              /\ es_pc = "exited"
              /\ exit_code = 0
              /\ posted = <<>>

\* the prompt was reached on a wildcard index and answered with something
\* that is not a yes
C6_Witness ==
    /\ args.wildcard /\ args.allow_wildcard
    /\ asked = "yes please"
    /\ exit_code = 0
    /\ posted = <<>>

---------------------------------------------------------------------------
(* C7 *)

\* C7: with --dry-run, requests.post is never invoked and the output file
\* never opened, whatever the other flags; and the payload printed is the
\* value build_payload gives for the loaded subnets, days and size, which is
\* also the document a run without --dry-run posts.
C7_DryRunIsSafe ==
    LET expected ==
            build_payload(load_subnets(input_csv.rows), args.days, args.size)
    IN /\ args.dry_run =>
             /\ posted = <<>>
             /\ ~output_opened /\ output_rows = <<>>
             /\ printed # <<>> => printed[1].document = expected
             /\ (es_pc = "exited" /\ exit_code = 0) => printed # <<>>
       /\ ~args.dry_run =>
             /\ printed = <<>>
             /\ posted # <<>> => posted[1].data.document = expected

\* a dry run on a wildcard index with two subnets printed its payload
C7_Witness ==
    /\ args.dry_run /\ args.wildcard /\ ~args.confirm
    /\ Len(subnets) = 2
    /\ printed # <<>>
    /\ exit_code = 0

---------------------------------------------------------------------------
(* C8 *)

=============================================================================
